---- MODULE Spec2Model ----
(***************************************************************************)
(* A model of tensorify (src/tensorify/tensorify.py): the tensorflow_op    *)
(* decorator with its three configuration mutators, the camel_case name    *)
(* helper and the module-level tensorify helper, together with the test    *)
(* program of src/test (functions.add, functions.replicate, Accumulator).  *)
(*                                                                         *)
(* Strings that the code takes apart (identifiers, node names) are         *)
(* sequences of one-character strings.  Python's None is an option record. *)
(***************************************************************************)
EXTENDS Integers, Sequences, FiniteSets, TLC

\* ------------------------------------------------------------------ bounds
MaxLen == 4          \* longest identifier given to camel_case
MaxDerived == 1      \* wrapped callables built by mutators (SpecConfig)
MaxConfigNodes == 1  \* nodes registered in SpecConfig / SpecCase
MaxNodes == 2        \* nodes registered in Spec
MaxEvals == 3        \* evaluations run in Spec
MaxModules == 2      \* namespace objects in SpecModule
MaxWraps == 6        \* wrapped callables built by tensorify in SpecModule

\* --------------------------------------------------------- str primitives
LowerCase ==
  <<"a","b","c","d","e","f","g","h","i","j","k","l","m",
    "n","o","p","q","r","s","t","u","v","w","x","y","z">>
UpperCase ==
  <<"A","B","C","D","E","F","G","H","I","J","K","L","M",
    "N","O","P","Q","R","S","T","U","V","W","X","Y","Z">>

IndexIn(c, table) ==
  IF \E i \in 1..Len(table) : table[i] = c
  THEN CHOOSE i \in 1..Len(table) : table[i] = c
  ELSE 0

upper(c) == IF IndexIn(c, LowerCase) > 0 THEN UpperCase[IndexIn(c, LowerCase)] ELSE c
lower(c) == IF IndexIn(c, UpperCase) > 0 THEN LowerCase[IndexIn(c, UpperCase)] ELSE c

\* str.capitalize(): first character upper-cased, every other one lower-cased.
capitalize(word) ==
  [i \in 1..Len(word) |-> IF i = 1 THEN upper(word[i]) ELSE lower(word[i])]

\* str.split(sep): the pieces between separators, empty pieces kept.
RECURSIVE split(_, _)
split(s, sep) ==
  IF \E i \in 1..Len(s) : s[i] = sep
  THEN LET i == CHOOSE k \in 1..Len(s) :
                  s[k] = sep /\ \A j \in 1..(k-1) : s[j] # sep
       IN <<SubSeq(s, 1, i-1)>> \o split(SubSeq(s, i+1, Len(s)), sep)
  ELSE <<s>>

\* ''.join(words)
RECURSIVE join(_)
join(words) == IF words = <<>> THEN <<>> ELSE Head(words) \o join(Tail(words))

\* A helper that capitalizes the name as a whole, without splitting it.
camel_case_unsplit(name) == capitalize(name)

camel_case(name) ==
  LET words == split(name, "_")
  IN join([i \in 1..Len(words) |-> capitalize(words[i])])

\* ------------------------------------------------------------ python values
None == [some |-> FALSE, str |-> <<>>]
Some(s) == [some |-> TRUE, str |-> s]

\* A positional argument: an int (a constant tensor) or a reference to an
\* Accumulator instance.
IntArg(n) == [obj |-> FALSE, v |-> n]
ObjArg(r) == [obj |-> TRUE, v |-> r]

\* An output signature: one dtype (tf.int64) or a list of dtypes.
Single(d) == [list |-> FALSE, dtypes |-> <<d>>]
List(ds) == [list |-> TRUE, dtypes |-> ds]

\* What a call or an evaluation produces.
Value(n) == [kind |-> "value", vals |-> <<n>>, exc |-> "none"]
ListOf(vs) == [kind |-> "list", vals |-> vs, exc |-> "none"]
Raise(e) == [kind |-> "raise", vals |-> <<>>, exc |-> e]

\* References to callables and other namespace members.
Fn(i) == [kind |-> "function", id |-> i]
Wr(i) == [kind |-> "wrapper", id |-> i]
Class(i) == [kind |-> "class", id |-> i]
Attr(i) == [kind |-> "attr", id |-> i]

VARIABLES
  functions,  \* the plain function objects: [name, body]
  wrappers,   \* the tf_wrapper closures: their captured configuration
  decorations,\* the decorator applications the program wrote: arguments, result
  nodes,      \* the nodes registered with the framework by tf.py_func
  calls,      \* per node, the call that registered it and what it returned
  state,      \* self.state of every Accumulator instance
  cache,      \* per node, the outputs the framework may reuse (stateless ops)
  evalLog,    \* the evaluations run so far: [node, out, res]
  modules,    \* the namespace objects: their binding tables
  last        \* the most recent call and how it ended

vars == <<functions, wrappers, decorations, nodes, calls, state, cache, evalLog, modules, last>>

Started == [op |-> "start", target |-> 0, args |-> <<>>, raised |-> "none", result |-> 0]
Did(op, target, raised, result) ==
  [op |-> op, target |-> target, args |-> <<>>, raised |-> raised, result |-> result]

\* function.__name__ (functools.wraps copies it onto a tf_wrapper)
NameOf(ref) ==
  IF ref.kind = "function" THEN functions[ref.id].name ELSE wrappers[ref.id].fname

\* ----------------------------------------------------------- tensorflow_op
\* A decorator that resolves an unset stateful to False instead of is_method.
tensorflow_op_unset_false(outputs, stateful, name, is_method, function) ==
  [function |-> function,
   fname |-> NameOf(function),
   outputs |-> outputs,
   stateful |-> stateful = "True",
   name |-> name,
   is_method |-> is_method]

\* tensorflow_op(outputs, stateful, name, is_method)(function): the closure
\* variables of the returned tf_wrapper.  stateful is "None", "True" or
\* "False"; the closure keeps the resolved boolean.
tensorflow_op(outputs, stateful, name, is_method, function) ==
  [function |-> function,
   fname |-> NameOf(function),
   outputs |-> outputs,
   stateful |-> IF stateful = "None" THEN is_method ELSE stateful = "True",
   name |-> name,
   is_method |-> is_method]

Py(b) == IF b THEN "True" ELSE "False"

\* One decorator application as the program wrote it, and the wrapped
\* callable (an index into wrappers) it produced.
Decoration(outputs, stateful, name, is_method, function, result) ==
  [outputs |-> outputs, stateful |-> stateful, name |-> name,
   is_method |-> is_method, function |-> function, result |-> result]


\* The three configuration mutators: what the call raises, and the closure
\* of the wrapped callable it returns.
set_name(cfg, new_name) ==
  [raised |-> "none",
   cfg |-> tensorflow_op(cfg.outputs, Py(cfg.stateful), Some(new_name),
                         cfg.is_method, cfg.function)]

\* The argument list names new_stateful, which is bound nowhere (the parameter
\* is new_statefulness): evaluating it raises before tensorflow_op is called.
set_stateful(cfg, new_statefulness) ==
  [raised |-> "NameError", cfg |-> cfg]

set_outputs(cfg, new_outputs) ==
  [raised |-> "none",
   cfg |-> tensorflow_op(new_outputs, Py(cfg.stateful), cfg.name,
                         cfg.is_method, cfg.function)]

\* tf.py_func(func, inp, Tout, stateful, name): the node it registers.
py_func(func, inp, Tout, stateful, name) ==
  [func |-> func, inp |-> inp, Tout |-> Tout, stateful |-> stateful, name |-> name]

\* functools.partial(function, *bound, **kwargs)
partial(function, bound, kwargs) ==
  [function |-> function, bound |-> bound, kwargs |-> kwargs]

NoNode == py_func(partial(Fn(0), <<>>, {}), <<>>, List(<<>>), FALSE, <<>>)

\* A wrapper that forgets to bind the keyword arguments into the callback.
tf_wrapper_drops_kwargs(cfg, args, kwargs) ==
  LET name_to_use == IF cfg.name.some THEN cfg.name.str
                     ELSE camel_case(NameOf(cfg.function))
  IN IF cfg.is_method
     THEN IF Len(args) = 0
          THEN [raised |-> "IndexError", node |-> NoNode]
          ELSE [raised |-> "none",
                node |-> py_func(partial(cfg.function, <<Head(args)>>, {}),
                                 Tail(args), cfg.outputs, cfg.stateful, name_to_use)]
     ELSE [raised |-> "none",
           node |-> py_func(partial(cfg.function, <<>>, {}),
                            args, cfg.outputs, cfg.stateful, name_to_use)]

\* A wrapper that leaves the receiver among the tensor inputs.
tf_wrapper_keeps_self(cfg, args, kwargs) ==
  LET name_to_use == IF cfg.name.some THEN cfg.name.str
                     ELSE camel_case(NameOf(cfg.function))
  IN IF cfg.is_method
     THEN IF Len(args) = 0
          THEN [raised |-> "IndexError", node |-> NoNode]
          ELSE [raised |-> "none",
                node |-> py_func(partial(cfg.function, <<Head(args)>>, kwargs),
                                 args, cfg.outputs, cfg.stateful, name_to_use)]
     ELSE [raised |-> "none",
           node |-> py_func(partial(cfg.function, <<>>, kwargs),
                            args, cfg.outputs, cfg.stateful, name_to_use)]

\* tf_wrapper(*args, **kwargs) of the wrapped callable with closure cfg.
tf_wrapper(cfg, args, kwargs) ==
  LET name_to_use == IF cfg.name.some THEN cfg.name.str
                     ELSE camel_case(NameOf(cfg.function))
  IN IF cfg.is_method
     THEN IF Len(args) = 0
          THEN [raised |-> "IndexError", node |-> NoNode]
          ELSE [raised |-> "none",
                node |-> py_func(partial(cfg.function, <<Head(args)>>, kwargs),
                                 Tail(args), cfg.outputs, cfg.stateful, name_to_use)]
     ELSE [raised |-> "none",
           node |-> py_func(partial(cfg.function, <<>>, kwargs),
                            args, cfg.outputs, cfg.stateful, name_to_use)]

\* The outputs of a node, and what py_func returns for it: one tensor handle,
\* or a list with one handle per declared output type.
NumOutputs(node) == IF node.Tout.list THEN Len(node.Tout.dtypes) ELSE 1
Handles(node) == [list |-> node.Tout.list, outs |-> 1..NumOutputs(node)]

\* ----------------------------------------------------------------- actions
Mutated(op, w, out) ==
  /\ IF out.raised = "none"
     THEN /\ wrappers' = Append(wrappers, out.cfg)
          /\ last' = Did(op, w, "none", Len(wrappers) + 1)
     ELSE /\ wrappers' = wrappers
          /\ last' = Did(op, w, out.raised, 0)
  /\ UNCHANGED <<functions, decorations, nodes, calls, state, cache, evalLog, modules>>

SetName(w, new_name) == Mutated("with_name", w, set_name(wrappers[w], new_name))

SetStateful(w, new_statefulness) ==
  Mutated("stateful", w, set_stateful(wrappers[w], new_statefulness))

SetOutputs(w, new_outputs) ==
  Mutated("with_outputs", w, set_outputs(wrappers[w], new_outputs))

NoCache == [some |-> FALSE, res |-> Raise("none")]
Cached(res) == [some |-> TRUE, res |-> res]

Call(w, args, kwargs) ==
  LET out == tf_wrapper(wrappers[w], args, kwargs)
  IN /\ IF out.raised = "none"
        THEN /\ nodes' = Append(nodes, out.node)
             /\ calls' = Append(calls, [w |-> w, args |-> args, kwargs |-> kwargs,
                                        handles |-> Handles(out.node)])
             /\ cache' = Append(cache, NoCache)
             /\ last' = [Did("call", w, "none", Len(nodes) + 1) EXCEPT !.args = args]
        ELSE /\ UNCHANGED <<nodes, calls, cache>>
             /\ last' = [Did("call", w, out.raised, 0) EXCEPT !.args = args]
     /\ UNCHANGED <<functions, wrappers, decorations, state, evalLog, modules>>


\* ------------------------------------------------- the test program's code
\* functions.add, functions.replicate and Accumulator.accumulate, called with
\* positional arguments args and keyword arguments kwargs while the
\* Accumulator instances hold st: the result, and the instances afterwards.
KwOnly(kwargs, keys) == \A kv \in kwargs : kv[1] \in keys
Kw(kwargs, key, default) ==
  IF \E kv \in kwargs : kv[1] = key
  THEN (CHOOSE kv \in kwargs : kv[1] = key)[2]
  ELSE default

add(args, kwargs, st) ==
  IF Len(args) = 2 /\ ~args[1].obj /\ ~args[2].obj /\ KwOnly(kwargs, {"extra_one"})
  THEN [res |-> Value(args[1].v + args[2].v
                      + (IF Kw(kwargs, "extra_one", FALSE) THEN 1 ELSE 0)),
        st |-> st]
  ELSE [res |-> Raise("TypeError"), st |-> st]

replicate(args, kwargs, st) ==
  IF Len(args) = 2 /\ ~args[1].obj /\ ~args[2].obj /\ kwargs = {}
  THEN [res |-> ListOf([i \in 1..args[2].v |-> args[1].v]), st |-> st]
  ELSE [res |-> Raise("TypeError"), st |-> st]

accumulate(args, kwargs, st) ==
  IF Len(args) = 2 /\ args[1].obj /\ ~args[2].obj /\ kwargs = {}
  THEN LET self == args[1].v
           new == st[self] + args[2].v
       IN [res |-> Value(new), st |-> [st EXCEPT ![self] = new]]
  ELSE [res |-> Raise("TypeError"), st |-> st]

PyCall(function, args, kwargs, st) ==
  LET body == functions[function.id].body
  IN CASE body = "add" -> add(args, kwargs, st)
       [] body = "replicate" -> replicate(args, kwargs, st)
       [] body = "accumulate" -> accumulate(args, kwargs, st)

\* ---------------------------------------------------- running a node
\* The framework calls func(*inp) and fits what it returns to Tout.
Fit(node, res) ==
  IF res.kind = "raise" \/ ~node.Tout.list THEN res
  ELSE IF res.kind = "list" /\ Len(res.vals) = Len(node.Tout.dtypes) THEN res
  ELSE IF res.kind = "value" /\ Len(node.Tout.dtypes) = 1 THEN ListOf(res.vals)
  ELSE Raise("InvalidArgumentError")

RunNode(node, st) ==
  LET r == PyCall(node.func.function, node.func.bound \o node.inp,
                  node.func.kwargs, st)
  IN [res |-> Fit(node, r.res), st |-> r.st]

\* Output i of a node whose run produced outs.
Output(node, outs, i) ==
  IF outs.kind = "raise" \/ ~node.Tout.list THEN outs ELSE Value(outs.vals[i])

Logged(n, i, outs) ==
  evalLog' = Append(evalLog, [node |-> n, out |-> i, res |-> Output(nodes[n], outs, i)])

\* handle.eval(): a stateful node is run every time; for a node that is not
\* stateful the framework may hand back what an earlier run produced.
Eval(n, i) ==
  /\ n \in 1..Len(nodes)
  /\ i \in 1..NumOutputs(nodes[n])
  /\ LET run == RunNode(nodes[n], state)
     IN \/ /\ state' = run.st
           /\ cache' = IF nodes[n].stateful THEN cache
                       ELSE [cache EXCEPT ![n] = Cached(run.res)]
           /\ Logged(n, i, run.res)
        \/ /\ ~nodes[n].stateful
           /\ cache[n].some
           /\ Logged(n, i, cache[n].res)
           /\ UNCHANGED <<state, cache>>
  /\ UNCHANGED <<functions, wrappers, decorations, nodes, calls, modules, last>>

\* ------------------------------------------------------ the test program
Instances == {1, 2}
IntVals == {1, 2}
Names == {<<"X">>}
OutputChoices == {Single("int64"), List(<<"int32", "int32">>)}

TestFunctions ==
  << [name |-> <<"a","d","d">>, body |-> "add"],
     [name |-> <<"r","e","p","l","i","c","a","t","e">>, body |-> "replicate"],
     [name |-> <<"a","c","c","u","m","u","l","a","t","e">>, body |-> "accumulate"] >>

\* The calls of a wrapped callable that fit its function's signature.
GoodCalls(cfg) ==
  LET body == functions[cfg.function.id].body
      pairs == {<<IntArg(x), IntArg(2)>> : x \in IntVals}
  IN CASE body = "add" ->
            {[args |-> a, kwargs |-> k] :
               a \in pairs, k \in {{}, {<<"extra_one", TRUE>>}}}
       [] body = "replicate" -> {[args |-> a, kwargs |-> {}] : a \in pairs}
       [] body = "accumulate" ->
            {[args |-> <<ObjArg(r), IntArg(x)>>, kwargs |-> {}] :
               r \in Instances, x \in IntVals}

\* After the test module is imported and its wrapped callables are built:
\* tensorify(functions, tf.int64), Accumulator.accumulate, and
\* functions.replicate.with_outputs([tf.int32] * n).
Init ==
  /\ functions = TestFunctions
  /\ wrappers =
       << tensorflow_op(Single("int64"), "None", None, FALSE, Fn(1)),
          tensorflow_op(Single("int64"), "None", None, FALSE, Fn(2)),
          tensorflow_op(Single("int64"), "None", None, TRUE, Fn(3)),
          set_outputs(tensorflow_op(Single("int64"), "None", None, FALSE, Fn(2)),
                      List(<<"int32", "int32">>)).cfg >>
  /\ decorations =
       << Decoration(Single("int64"), "None", None, FALSE, Fn(1), 1),
          Decoration(Single("int64"), "None", None, FALSE, Fn(2), 2),
          Decoration(Single("int64"), "None", None, TRUE, Fn(3), 3) >>
  /\ nodes = <<>>
  /\ calls = <<>>
  /\ cache = <<>>
  /\ state = [r \in Instances |-> 0]
  /\ evalLog = <<>>
  /\ modules = <<>>
  /\ last = Started

DoCall ==
  /\ Len(nodes) < MaxNodes
  /\ \E w \in 1..Len(wrappers) : \E c \in GoodCalls(wrappers[w]) :
       Call(w, c.args, c.kwargs)

DoEval ==
  /\ Len(evalLog) < MaxEvals
  /\ \E n \in 1..Len(nodes) : \E i \in 1..NumOutputs(nodes[n]) : Eval(n, i)

Next == DoCall \/ DoEval

Spec == Init /\ [][Next]_vars


\* --------------------------------------- decorating, reconfiguring, calling
TriState == {"None", "True", "False"}
NameChoices == {None, Some(<<"X">>)}

\* Positional arguments of a call: ints, and for a method op possibly a
\* receiver first.
IntTuples == {<<>>, <<IntArg(1), IntArg(2)>>}
ReceiverTuples == {<<ObjArg(1)>>, <<ObjArg(1), IntArg(2)>>}
ArgsFor(cfg) == IF cfg.is_method THEN IntTuples \cup ReceiverTuples ELSE IntTuples

\* The functions decorated here: add and accumulate.
Decorated == {1, 3}

\* One function has been decorated, with any arguments of the decorator.
InitConfig ==
  /\ functions = TestFunctions
  /\ \E o \in OutputChoices, s \in TriState, n \in NameChoices,
        m \in BOOLEAN, f \in Decorated :
       /\ wrappers = <<tensorflow_op(o, s, n, m, Fn(f))>>
       /\ decorations = <<Decoration(o, s, n, m, Fn(f), 1)>>
  /\ nodes = <<>>
  /\ calls = <<>>
  /\ cache = <<>>
  /\ state = [r \in Instances |-> 0]
  /\ evalLog = <<>>
  /\ modules = <<>>
  /\ last = Started

\* A mutator may run while it stays within the bound on wrapped callables
\* (or raises, which builds none).
Room(out) == Len(wrappers) <= MaxDerived \/ out.raised # "none"

WithName ==
  \E w \in 1..Len(wrappers) : \E nm \in Names :
    Room(set_name(wrappers[w], nm)) /\ SetName(w, nm)

Stateful ==
  \E w \in 1..Len(wrappers) : \E b \in BOOLEAN :
    Room(set_stateful(wrappers[w], b)) /\ SetStateful(w, b)

WithOutputs ==
  \E w \in 1..Len(wrappers) : \E o \in OutputChoices :
    Room(set_outputs(wrappers[w], o)) /\ SetOutputs(w, o)

ConfigCall ==
  \E w \in 1..Len(wrappers) : \E a \in ArgsFor(wrappers[w]) :
    /\ Len(nodes) < MaxConfigNodes \/ tf_wrapper(wrappers[w], a, {}).raised # "none"
    /\ Call(w, a, {})

NextConfig == WithName \/ Stateful \/ WithOutputs \/ ConfigCall

SpecConfig == InitConfig /\ [][NextConfig]_vars

\* ------------------------------------------------- naming a function's node
Alphabet == {"a", "v", "V", "_"}
Idents == UNION {[1..n -> Alphabet] : n \in 0..MaxLen}
SomeCall == <<IntArg(1), IntArg(2)>>

\* A function of any short identifier has been decorated without a name.
InitCase ==
  /\ \E id \in Idents : functions = <<[name |-> id, body |-> "add"]>>
  /\ wrappers = <<tensorflow_op(Single("int64"), "None", None, FALSE, Fn(1))>>
  /\ decorations = <<Decoration(Single("int64"), "None", None, FALSE, Fn(1), 1)>>
  /\ nodes = <<>>
  /\ calls = <<>>
  /\ cache = <<>>
  /\ state = [r \in Instances |-> 0]
  /\ evalLog = <<>>
  /\ modules = <<>>
  /\ last = Started

CaseCall ==
  /\ Len(nodes) < MaxConfigNodes
  /\ \E w \in 1..Len(wrappers) : Call(w, SomeCall, {})

CaseWithName ==
  /\ Len(wrappers) <= MaxDerived
  /\ \E w \in 1..Len(wrappers) : \E nm \in Names : SetName(w, nm)

NextCase == CaseWithName \/ CaseCall

SpecCase == InitCase /\ [][NextCase]_vars

\* ------------------------------------------------------------ tensorify
Keys == <<"Accumulator", "__doc__", "add", "replicate">>

\* inspect.isfunction: true of a def, and tf_wrapper is one.
isfunction(ref) == ref.kind \in {"function", "wrapper"}

\* The loop over inspect.getmembers(new_module, inspect.isfunction), which
\* lists the members sorted by name: table and ws are the binding table and
\* the wrapped callables so far, ds the decorator applications.
RECURSIVE Operize(_, _, _, _, _)
Operize(keys, table, ws, ds, default_outputs) ==
  IF keys = <<>> THEN [table |-> table, ws |-> ws, ds |-> ds]
  ELSE LET name == Head(keys)
           function == table[name]
       IN IF isfunction(function)
          THEN Operize(Tail(keys),
                       [table EXCEPT ![name] = Wr(Len(ws) + 1)],
                       Append(ws, tensorflow_op(default_outputs, "None", None,
                                                FALSE, function)),
                       Append(ds, Decoration(default_outputs, "None", None,
                                             FALSE, function, Len(ws) + 1)),
                       default_outputs)
          ELSE Operize(Tail(keys), table, ws, ds, default_outputs)

\* copy.copy(module) either raises (CPython 3.11 raises TypeError: cannot
\* pickle 'module' object) or returns a new module whose binding table holds
\* the same bindings.
CopyOutcomes == {"TypeError", "copied"}

\* tensorify(module, default_outputs, in_place): what it raises, the module
\* it returns, and the heap afterwards.
tensorify(module, default_outputs, in_place, copied) ==
  IF ~in_place /\ copied = "TypeError"
  THEN [raised |-> "TypeError", result |-> 0,
        modules |-> modules, wrappers |-> wrappers, decorations |-> decorations]
  ELSE LET new_module == IF in_place THEN module ELSE Len(modules) + 1
           tables == IF in_place THEN modules ELSE Append(modules, modules[module])
           done == Operize(Keys, tables[new_module], wrappers, decorations,
                           default_outputs)
       IN [raised |-> "none", result |-> new_module,
           modules |-> [tables EXCEPT ![new_module] = done.table],
           wrappers |-> done.ws, decorations |-> done.ds]

Tensorify(module, default_outputs, in_place, copied) ==
  LET out == tensorify(module, default_outputs, in_place, copied)
  IN /\ modules' = out.modules
     /\ wrappers' = out.wrappers
     /\ decorations' = out.decorations
     /\ last' = Did("tensorify", module, out.raised, out.result)
     /\ UNCHANGED <<functions, nodes, calls, state, cache, evalLog>>

\* One namespace: two plain functions, a class and a non-function attribute.
InitModule ==
  /\ functions = TestFunctions
  /\ wrappers = <<>>
  /\ decorations = <<>>
  /\ modules = << [k \in {Keys[i] : i \in 1..Len(Keys)} |->
                     CASE k = "add" -> Fn(1)
                       [] k = "replicate" -> Fn(2)
                       [] k = "Accumulator" -> Class(1)
                       [] k = "__doc__" -> Attr(1)] >>
  /\ nodes = <<>>
  /\ calls = <<>>
  /\ cache = <<>>
  /\ state = [r \in Instances |-> 0]
  /\ evalLog = <<>>
  /\ last = Started

TensorifyInPlace ==
  \E m \in 1..Len(modules) : \E o \in OutputChoices :
    /\ Len(tensorify(m, o, TRUE, "copied").wrappers) <= MaxWraps
    /\ Tensorify(m, o, TRUE, "copied")

TensorifyCopy ==
  \E m \in 1..Len(modules) : \E o \in OutputChoices : \E c \in CopyOutcomes :
    /\ Len(tensorify(m, o, FALSE, c).wrappers) <= MaxWraps
    /\ Len(tensorify(m, o, FALSE, c).modules) <= MaxModules
    /\ Tensorify(m, o, FALSE, c)

NextModule == TensorifyInPlace \/ TensorifyCopy

SpecModule == InitModule /\ [][NextModule]_vars

\* ------------------------------------------------------------------ claims
IsPure(function) == functions[function.id].body \in {"add", "replicate"}

\* C1: calling a wrapped plain function with positional arguments p and
\* keywords kw registers a node whose inputs are p in order and whose callback
\* is the function with kw bound; every evaluation of the node gives what
\* f(*p, **kw) gives, and with a list of declared output types the call
\* returns one handle per type, handle i evaluating to element i of f's list.
C1_ValueTransparent ==
  /\ \A n \in 1..Len(nodes) :
       LET c == calls[n]
           cfg == wrappers[c.w]
       IN ~cfg.is_method =>
            /\ nodes[n].inp = c.args
            /\ nodes[n].func = partial(cfg.function, <<>>, c.kwargs)
            /\ c.handles.list = cfg.outputs.list
            /\ cfg.outputs.list => c.handles.outs = 1..Len(cfg.outputs.dtypes)
  /\ \A k \in 1..Len(evalLog) :
       LET e == evalLog[k]
           c == calls[e.node]
           cfg == wrappers[c.w]
           direct == PyCall(cfg.function, c.args, c.kwargs, state).res
       IN IsPure(cfg.function) /\ direct.kind # "raise" =>
            IF cfg.outputs.list
            THEN (direct.kind = "list" /\ Len(direct.vals) = Len(cfg.outputs.dtypes))
                   => e.res = Value(direct.vals[e.out])
            ELSE e.res = direct

\* add(1, 2, extra_one=True) was evaluated to 4, and the second handle of a
\* two-output replicate(2, 2) to 2.
C1_Witness ==
  /\ \E k \in 1..Len(evalLog) :
       /\ calls[evalLog[k].node].args = <<IntArg(1), IntArg(2)>>
       /\ calls[evalLog[k].node].kwargs = {<<"extra_one", TRUE>>}
       /\ functions[wrappers[calls[evalLog[k].node].w].function.id].body = "add"
       /\ evalLog[k].res = Value(4)
  /\ \E k \in 1..Len(evalLog) :
       /\ calls[evalLog[k].node].handles = [list |-> TRUE, outs |-> {1, 2}]
       /\ evalLog[k].out = 2
       /\ evalLog[k].res = Value(2)

\* The sum of the inputs of the first k evaluations that ran on receiver r.
RECURSIVE SumFed(_, _)
SumFed(k, r) ==
  IF k = 0 THEN 0
  ELSE LET c == calls[evalLog[k].node]
       IN SumFed(k - 1, r)
          + (IF wrappers[c.w].is_method /\ c.args[1] = ObjArg(r) THEN c.args[2].v ELSE 0)

\* C2: for the method op accumulate (is_method=True, stateful not given) every
\* evaluation of every node of a receiver runs the method on that receiver:
\* the k-th evaluation returns the sum of the inputs evaluated so far.
C2_MethodOpAccumulates ==
  \A k \in 1..Len(evalLog) :
    LET c == calls[evalLog[k].node]
    IN wrappers[c.w].is_method /\ functions[wrappers[c.w].function.id].body = "accumulate"
         => evalLog[k].res = Value(SumFed(k, c.args[1].v))

\* one.eval() = 1, one.eval() = 2, then two.eval() = 4 on the same receiver.
C2_Witness ==
  /\ Len(evalLog) = 3
  /\ evalLog[1].node = evalLog[2].node
  /\ evalLog[3].node # evalLog[1].node
  /\ calls[evalLog[1].node].args = <<ObjArg(1), IntArg(1)>>
  /\ calls[evalLog[3].node].args = <<ObjArg(1), IntArg(2)>>
  /\ evalLog[1].res = Value(1)
  /\ evalLog[2].res = Value(2)
  /\ evalLog[3].res = Value(4)


\* A mutator call returned a new wrapped callable with closure cfg, and left
\* every existing wrapped callable as it was.
Built(cfg) == last'.raised = "none" /\ wrappers' = Append(wrappers, cfg)

\* C3: each of with_name, stateful and with_outputs completes without raising
\* and returns a new wrapped callable in which only the targeted field has
\* the supplied value, every other field and the original being unchanged.
C3_MutatorChangesOneField ==
  [][\A w \in 1..Len(wrappers) :
       /\ \A nm \in Names :
            SetName(w, nm) => Built([wrappers[w] EXCEPT !.name = Some(nm)])
       /\ \A b \in BOOLEAN :
            SetStateful(w, b) => Built([wrappers[w] EXCEPT !.stateful = b])
       /\ \A o \in OutputChoices :
            SetOutputs(w, o) => Built([wrappers[w] EXCEPT !.outputs = o])]_vars

MutatorOps == {"with_name", "stateful", "with_outputs"}

\* C4: a mutator applied to the result of a mutator of another field returns
\* a wrapped callable that has the new value in its own field and keeps the
\* other fields, the earlier mutation among them: with_name("X").stateful(b)
\* has name "X" and statefulness b, whichever mutator came first.
C4_MutatorsCompose ==
  [][\A w \in 1..Len(wrappers) :
       (last.op \in MutatorOps /\ last.raised = "none" /\ last.result = w) =>
         /\ last.op # "with_name" =>
              \A nm \in Names :
                SetName(w, nm) => Built([wrappers[w] EXCEPT !.name = Some(nm)])
         /\ last.op # "stateful" =>
              \A b \in BOOLEAN :
                SetStateful(w, b) => Built([wrappers[w] EXCEPT !.stateful = b])
         /\ last.op # "with_outputs" =>
              \A o \in OutputChoices :
                SetOutputs(w, o) => Built([wrappers[w] EXCEPT !.outputs = o])]_vars

\* The statefulness the decorator's arguments resolve to.
Resolved(d) == IF d.stateful = "None" THEN d.is_method ELSE d.stateful = "True"

\* C5: every node gets as its stateful flag what the decoration resolves to:
\* the explicit value when one was given, is_method when none was; the
\* wrapped callables built by with_name and with_outputs pass the same flag.
\* (In SpecConfig every wrapped callable stems from decorations[1].)
C5_StatefulnessResolved ==
  /\ \A w \in 1..Len(wrappers) : wrappers[w].stateful = Resolved(decorations[1])
  /\ \A n \in 1..Len(nodes) : nodes[n].stateful = Resolved(decorations[1])

\* A method decorated without stateful, reconfigured by with_outputs and then
\* called: the node is stateful.
C5_Witness ==
  /\ decorations[1].stateful = "None"
  /\ decorations[1].is_method
  /\ \E n \in 1..Len(nodes) :
       /\ calls[n].w > 1
       /\ wrappers[calls[n].w].outputs # decorations[1].outputs
       /\ nodes[n].stateful

C8_Inputs ==
  \A n \in 1..Len(nodes) :
    LET c == calls[n]
    IN IF wrappers[c.w].is_method
       THEN /\ Len(c.args) >= 1
            /\ nodes[n].func.bound = <<c.args[1]>>
            /\ nodes[n].inp = Tail(c.args)
       ELSE /\ nodes[n].func.bound = <<>>
            /\ nodes[n].inp = c.args

C8_NoReceiver ==
  \A w \in 1..Len(wrappers) :
    (wrappers[w].is_method /\ Call(w, <<>>, {})) =>
      (last'.raised = "IndexError" /\ nodes' = nodes)

\* C8: a method op takes its first positional argument as the receiver, binds
\* it first in the callback and passes the remaining arguments, in order, as
\* the tensor inputs; called without positional arguments it raises
\* IndexError and registers no node.  Any other op passes all its positional
\* arguments as tensor inputs.
C8_MethodReceiver == []C8_Inputs /\ [][C8_NoReceiver]_vars

\* A method op was called with a receiver and one tensor, and the last call,
\* of a method op without arguments, raised.
C8_Witness ==
  /\ \E n \in 1..Len(nodes) :
       /\ wrappers[calls[n].w].is_method
       /\ calls[n].args = <<ObjArg(1), IntArg(2)>>
       /\ nodes[n].inp = <<IntArg(2)>>
  /\ last.op = "call"
  /\ last.args = <<>>
  /\ wrappers[last.target].is_method
  /\ last.raised = "IndexError"


\* An identifier of underscore-separated lowercase words.
IsSnake(id) == \A i \in 1..Len(id) : id[i] = "_" \/ IndexIn(id[i], LowerCase) > 0

\* Each word with its first letter upper-cased, the underscores removed: a
\* letter is upper-cased when it starts the identifier or follows an
\* underscore.
RECURSIVE Pascal(_, _)
Pascal(id, starts) ==
  IF id = <<>> THEN <<>>
  ELSE IF Head(id) = "_" THEN Pascal(Tail(id), TRUE)
  ELSE <<IF starts THEN upper(Head(id)) ELSE Head(id)>> \o Pascal(Tail(id), FALSE)

\* C6: a node of a wrapped callable without a configured name is named
\* camel_case of the function's identifier, which for an identifier of
\* underscore-separated lowercase words is the words capitalized and joined
\* ("add" -> "Add", "replicate_value" -> "ReplicateValue", "" -> "", an empty
\* word between two underscores adding nothing); a configured name is used
\* as it is.
C6_DefaultNodeName ==
  /\ \A n \in 1..Len(nodes) :
       LET cfg == wrappers[calls[n].w]
           id == functions[cfg.function.id].name
       IN IF cfg.name.some THEN nodes[n].name = cfg.name.str
          ELSE /\ nodes[n].name = camel_case(id)
               /\ IsSnake(id) => nodes[n].name = Pascal(id, TRUE)
  /\ camel_case(<<"a","d","d">>) = <<"A","d","d">>
  /\ camel_case(<<"r","e","p","l","i","c","a","t","e","_","v","a","l","u","e">>)
       = <<"R","e","p","l","i","c","a","t","e","V","a","l","u","e">>
  /\ camel_case(<<>>) = <<>>

\* The function a__v, decorated without a name, has a node named AV, and a
\* callable renamed by with_name has a node of that name.
C6_Witness ==
  /\ functions[1].name = <<"a", "_", "_", "v">>
  /\ \E n \in 1..Len(nodes) :
       ~wrappers[calls[n].w].name.some /\ nodes[n].name = <<"A", "V">>

\* A lowerCamelCase identifier: no underscore, a lowercase first letter and
\* an uppercase letter after it.
IsLowerCamel(id) ==
  /\ Len(id) >= 2
  /\ IndexIn(id[1], LowerCase) > 0
  /\ \A i \in 1..Len(id) : id[i] # "_"
  /\ \E i \in 2..Len(id) : IndexIn(id[i], UpperCase) > 0

\* C7: for a lowerCamelCase identifier camel_case upper-cases the first
\* letter and leaves every other character as it is, so that is the default
\* name of the function's nodes.
C7_LowerCamelKept ==
  \A n \in 1..Len(nodes) :
    LET cfg == wrappers[calls[n].w]
        id == functions[cfg.function.id].name
    IN (~cfg.name.some /\ IsLowerCamel(id)) =>
         nodes[n].name = <<upper(Head(id))>> \o Tail(id)

KeySet == {Keys[i] : i \in 1..Len(Keys)}

\* The entries of namespace new that stand where old has plain functions
\* are their op-decorated versions with outputs o.
Operized(old, new, o) ==
  \A k \in KeySet :
    old[k].kind = "function" =>
      /\ new[k].kind = "wrapper"
      /\ wrappers'[new[k].id].function = old[k]
      /\ wrappers'[new[k].id].outputs = o

\* C9: tensorify with in_place=false returns a different namespace object
\* whose entries are the op-decorated functions, with outputs default_outputs,
\* and leaves every binding of the original namespace as it was; with
\* in_place=true it returns the same namespace with its bindings overwritten.
C9_CopyLeavesOriginal ==
  [][\A m \in 1..Len(modules) : \A o \in OutputChoices :
       /\ \A c \in CopyOutcomes :
            Tensorify(m, o, FALSE, c) =>
              /\ last'.raised = "none"
              /\ last'.result # m
              /\ last'.result \in 1..Len(modules')
              /\ modules'[m] = modules[m]
              /\ Operized(modules[m], modules'[last'.result], o)
       /\ Tensorify(m, o, TRUE, "copied") =>
            /\ last'.raised = "none"
            /\ last'.result = m
            /\ Operized(modules[m], modules'[m], o)]_vars

\* C10: one call of tensorify replaces exactly the entries that are plain
\* functions by their op-decorated versions; classes, non-function attributes
\* and already decorated callables stay bound to the same object, so a second
\* tensorify of a namespace changes no binding and wraps no function twice.
C10_OnlyPlainFunctions ==
  [][\A m \in 1..Len(modules) : \A o \in OutputChoices :
       Tensorify(m, o, TRUE, "copied") =>
         /\ Operized(modules[m], modules'[m], o)
         /\ \A k \in KeySet :
              modules[m][k].kind # "function" => modules'[m][k] = modules[m][k]
         /\ \A w \in 1..Len(wrappers') : wrappers'[w].function.kind = "function"]_vars

====
